---- MODULE Spec2Model ----
(***************************************************************************)
(* Model of scripts/verify_torrent.py: the fallback bencode codec          *)
(* (_decode_bencode / _encode_bencode) and the TorrentVerifier object      *)
(* (load_torrent, _extract_file_info, verify_files_exist,                  *)
(* get_tracker_list).  The optional bencodepy library is not part of the   *)
(* repository; the model follows the branch HAS_BENCODE = False.           *)
(*                                                                         *)
(* Bytes are integers 0..255, a bytes object is a sequence of them.        *)
(* Cursors are Python's 0-based indices (and may be negative, as in        *)
(* Python); helper operators translate to TLA+'s 1-based sequences.        *)
(***************************************************************************)
EXTENDS Integers, Sequences, FiniteSets, TLC

VARIABLES
    data,          \* contents of the file at torrent_path
    torrent_exists,  \* os.path.exists(self.torrent_path)
    torrent_data,  \* self.torrent_data
    info,          \* self.info
    info_hash,     \* self.info_hash
    files,         \* self.files
    total_size,    \* self.total_size
    load_result,   \* return values of the load_torrent calls made so far
    report,        \* outcome of the last verify_files_exist call
    stat_failed,   \* entries whose os.path.getsize raised in that call
    trackers,      \* outcome of the last get_tracker_list call
    decoded,       \* outcome of _decode_bencode(data)
    encoded        \* outcome of _encode_bencode(decoded)

vars == <<data, torrent_exists, torrent_data, info, info_hash, files, total_size, load_result,
          report, stat_failed, trackers, decoded, encoded>>

(***************************************************************************)
(* Bounds of the model.                                                    *)
(***************************************************************************)
MaxLen == 4      \* every byte string over Alphabet up to this length is an input
MaxFiles == 2    \* entries of a multi-entry info.files list
MaxSize == 1     \* declared lengths and on-disk sizes range over 0..MaxSize
MaxLoads == 2    \* load_torrent calls on one verifier

(***************************************************************************)
(* ASCII codes, ord(...) in the source.                                    *)
(***************************************************************************)
ORD == [a |-> 97, b |-> 98, c |-> 99, d |-> 100, e |-> 101, f |-> 102,
        g |-> 103, h |-> 104, i |-> 105, l |-> 108, m |-> 109, n |-> 110,
        o |-> 111, p |-> 112, s |-> 115, t |-> 116, u |-> 117, x |-> 120,
        colon |-> 58, minus |-> 45, plus |-> 43, under |-> 95, space |-> 32,
        slash |-> 47, dot |-> 46, zero |-> 48, nine |-> 57, bad |-> 255]

Digits == ORD.zero .. ORD.nine
Whitespace == {9, 10, 11, 12, 13, 32}

(***************************************************************************)
(* Python values.  Each kind is a record with its own field, so values of  *)
(* different kinds are never compared field against field.                 *)
(***************************************************************************)
NoneV == [none |-> TRUE]
IntV(n) == [int |-> n]
BytesV(s) == [bytes |-> s]
ListV(xs) == [list |-> xs]
DictV(items) == [dict |-> items]   \* <<key bytes, value>> pairs, insertion order
HexV(h) == [hex |-> h]             \* a hexdigest string

IsNone(v) == DOMAIN v = {"none"}
IsInt(v) == DOMAIN v = {"int"}
IsBytes(v) == DOMAIN v = {"bytes"}
IsList(v) == DOMAIN v = {"list"}
IsDict(v) == DOMAIN v = {"dict"}

\* Outcomes of a call that does not return a value.
Raised(e) == [raised |-> e]
IsRaised(r) == DOMAIN r = {"raised"}
Hang == [hang |-> TRUE]
IsHang(r) == DOMAIN r = {"hang"}
NotCalled == [notcalled |-> TRUE]
IsNotCalled(r) == DOMAIN r = {"notcalled"}

\* bool(v): None, 0, b'', [] and {} are falsy.
Truthy(v) ==
    IF IsNone(v) THEN FALSE
    ELSE IF IsInt(v) THEN v.int # 0
    ELSE IF IsBytes(v) THEN v.bytes # <<>>
    ELSE IF IsList(v) THEN v.list # <<>>
    ELSE v.dict # <<>>

SetMin(S) == CHOOSE p \in S : \A q \in S : p <= q
SetMax(S) == CHOOSE p \in S : \A q \in S : p >= q

(***************************************************************************)
(* Python sequence primitives on bytes.                                    *)
(***************************************************************************)
\* A slice bound clipped as Python clips it.
PyClip(x, a) ==
    IF a < 0 THEN (IF Len(x) + a < 0 THEN 0 ELSE Len(x) + a)
    ELSE (IF a > Len(x) THEN Len(x) ELSE a)

\* x[a:b]
PySlice(x, a, b) ==
    LET s == PyClip(x, a)
        e == PyClip(x, b)
    IN  IF s >= e THEN <<>> ELSE SubSeq(x, s + 1, e)

\* x.find(bytes([c]), a)
PyFind(x, c, a) ==
    LET hits == {p \in PyClip(x, a) .. (Len(x) - 1) : x[p + 1] = c}
    IN  IF hits = {} THEN -1 ELSE SetMin(hits)

\* x[i] is defined for -len(x) <= i < len(x); otherwise IndexError.
PyInRange(x, i) == i >= -Len(x) /\ i < Len(x)
PyAt(x, i) == IF i < 0 THEN x[Len(x) + i + 1] ELSE x[i + 1]

RECURSIVE DigitsValue(_)
DigitsValue(ds) ==
    IF ds = <<>> THEN 0
    ELSE 10 * DigitsValue(SubSeq(ds, 1, Len(ds) - 1)) + (ds[Len(ds)] - ORD.zero)

\* int(s) for a bytes object s: surrounding whitespace is stripped, one sign
\* is allowed, single underscores may separate digits.  IntV(n) or a
\* ValueError.
PyStrip(s) ==
    LET keep == {k \in 1..Len(s) : s[k] \notin Whitespace}
    IN  IF keep = {} THEN <<>> ELSE SubSeq(s, SetMin(keep), SetMax(keep))

IsIntBody(body) ==
    /\ body # <<>>
    /\ \A k \in 1..Len(body) : body[k] \in Digits \cup {ORD.under}
    /\ body[1] \in Digits /\ body[Len(body)] \in Digits
    /\ \A k \in 1..(Len(body) - 1) :
           ~(body[k] = ORD.under /\ body[k + 1] = ORD.under)

PyIntSigned(negative, body) ==
    IF ~IsIntBody(body) THEN Raised("ValueError")
    ELSE IntV((IF negative THEN -1 ELSE 1)
                * DigitsValue(SelectSeq(body, LAMBDA c : c \in Digits)))

PyIntStripped(t) ==
    IF t # <<>> /\ t[1] \in {ORD.minus, ORD.plus}
    THEN PyIntSigned(t[1] = ORD.minus, SubSeq(t, 2, Len(t)))
    ELSE PyIntSigned(FALSE, t)

PyInt(s) == PyIntStripped(PyStrip(s))

RECURSIVE NatStr(_)
NatStr(n) ==
    IF n < 10 THEN <<ORD.zero + n>>
    ELSE NatStr(n \div 10) \o <<ORD.zero + (n % 10)>>

\* str(n).encode()
PyStr(n) == IF n < 0 THEN <<ORD.minus>> \o NatStr(0 - n) ELSE NatStr(n)

\* a < b for bytes objects (lexicographic on unsigned bytes).
BytesLess(a, b) ==
    \E k \in 1..(Len(b)) :
        /\ k <= Len(a) + 1
        /\ \A j \in 1..(k - 1) : a[j] = b[j]
        /\ (k = Len(a) + 1 \/ a[k] < b[k])

\* s.decode('utf-8', errors='ignore') on the bytes the model uses: ASCII
\* bytes are kept, a byte that cannot start a UTF-8 sequence is dropped.
Utf8Ignore(s) == SelectSeq(s, LAMBDA c : c < 128)

(***************************************************************************)
(* dict primitives on the insertion-ordered pair list.                     *)
(***************************************************************************)
DictHas(items, k) == \E j \in 1..Len(items) : items[j][1] = k
DictGet(items, k) == items[CHOOSE j \in 1..Len(items) : items[j][1] = k][2]
DictGetDefault(items, k, dflt) == IF DictHas(items, k) THEN DictGet(items, k) ELSE dflt
\* result[key] = val: a present key keeps its position.
DictSet(items, k, v) ==
    IF DictHas(items, k)
    THEN [j \in 1..Len(items) |-> IF items[j][1] = k THEN <<k, v>> ELSE items[j]]
    ELSE Append(items, <<k, v>>)
DictKeys(items) == {items[j][1] : j \in 1..Len(items)}

(***************************************************************************)
(* _decode_bencode.  A nested function returns Ret(value, cursor), a       *)
(* raised exception, or Hang.                                              *)
(*                                                                         *)
(* decode_list and decode_dict carry two extra arguments that the source   *)
(* keeps implicitly:                                                       *)
(*   stack - the container calls that are active.  The functions are       *)
(*           deterministic, so a call that re-enters an active call with   *)
(*           the same cursor recurses without end and Python raises        *)
(*           RecursionError; inputs of the modelled lengths cannot reach   *)
(*           the recursion limit in any other way.                         *)
(*   seen  - the cursors at which the while loop has already started an    *)
(*           iteration.  An iteration that starts at such a cursor again   *)
(*           repeats for ever: the call does not return.                   *)
(* A dictionary key is read by decode_string without a check that it       *)
(* starts with a digit, so a key length may be negative and the cursor     *)
(* may move backwards; this is what makes both cases reachable.            *)
(***************************************************************************)
Ret(v, i) == [v |-> v, i |-> i]
IsRet(r) == DOMAIN r = {"v", "i"}

\* decode_string once the colon has been looked for and the length parsed
\* a faulty variant of the string body: the slice starts at the colon
\* instead of after it
DecodeStringBodyFromColon(x, colon, length) ==
    IF colon = -1 THEN Raised("ValueError")
    ELSE IF IsRaised(length) THEN length
    ELSE IF colon + 1 + length.int > Len(x) THEN Raised("ValueError")
    ELSE Ret(BytesV(PySlice(x, colon, colon + length.int)),
             colon + 1 + length.int)

DecodeStringBody(x, colon, length) ==
    IF colon = -1 THEN Raised("ValueError")
    ELSE IF IsRaised(length) THEN length
    ELSE IF colon + 1 + length.int > Len(x) THEN Raised("ValueError")
    ELSE Ret(BytesV(PySlice(x, colon + 1, colon + 1 + length.int)),
             colon + 1 + length.int)

DecodeStringAt(x, i, colon) ==
    DecodeStringBody(x, colon, PyInt(PySlice(x, i, colon)))

decode_string(x, i) == DecodeStringAt(x, i, PyFind(x, ORD.colon, i))

\* decode_int once the 'e' has been looked for and the digits parsed
DecodeIntBody(end, n) ==
    IF end = -1 THEN Raised("ValueError")
    ELSE IF IsRaised(n) THEN n
    ELSE Ret(n, end + 1)

DecodeIntAt(x, i1, end) == DecodeIntBody(end, PyInt(PySlice(x, i1, end)))

decode_int(x, i) == DecodeIntAt(x, i + 1, PyFind(x, ORD.e, i + 1))

RECURSIVE decode(_, _, _)
RECURSIVE DecodeByte(_, _, _, _)
RECURSIVE decode_list_loop(_, _, _, _, _)
RECURSIVE decode_dict_loop(_, _, _, _, _)

RECURSIVE ListLoopNext(_, _, _, _, _, _)
RECURSIVE DictLoopKey(_, _, _, _, _, _)
RECURSIVE DictLoopNext(_, _, _, _, _, _, _)

decode_list_loop(x, i, result, seen, stack) ==
    IF i >= Len(x) THEN Ret(ListV(result), i + 1)
    ELSE IF ~PyInRange(x, i) THEN Raised("IndexError")
    ELSE IF PyAt(x, i) = ORD.e THEN Ret(ListV(result), i + 1)
    ELSE IF i \in seen THEN Hang
    ELSE ListLoopNext(x, i, result, seen, stack, decode(x, i, stack))

\* the rest of an iteration, r being what decode(x, i) gave for the item
ListLoopNext(x, i, result, seen, stack, r) ==
    IF ~IsRet(r) THEN r
    ELSE decode_list_loop(x, r.i, Append(result, r.v), seen \cup {i}, stack)

decode_list(x, i, stack) ==
    IF <<"l", i>> \in stack THEN Raised("RecursionError")
    ELSE decode_list_loop(x, i + 1, <<>>, {}, stack \cup {<<"l", i>>})

decode_dict_loop(x, i, result, seen, stack) ==
    IF i >= Len(x) THEN Ret(DictV(result), i + 1)
    ELSE IF ~PyInRange(x, i) THEN Raised("IndexError")
    ELSE IF PyAt(x, i) = ORD.e THEN Ret(DictV(result), i + 1)
    ELSE IF i \in seen THEN Hang
    ELSE DictLoopKey(x, i, result, seen, stack, decode_string(x, i))

\* the rest of an iteration, key being what decode_string(x, i) gave
DictLoopKey(x, i, result, seen, stack, key) ==
    IF ~IsRet(key) THEN key
    ELSE DictLoopNext(x, i, result, seen, stack, key, decode(x, key.i, stack))

\* ... and r what decode gave for the value
DictLoopNext(x, i, result, seen, stack, key, r) ==
    IF ~IsRet(r) THEN r
    ELSE decode_dict_loop(x, r.i, DictSet(result, key.v.bytes, r.v),
                          seen \cup {i}, stack)

decode_dict(x, i, stack) ==
    IF <<"d", i>> \in stack THEN Raised("RecursionError")
    ELSE decode_dict_loop(x, i + 1, <<>>, {}, stack \cup {<<"d", i>>})

DecodeByte(x, i, stack, c) ==
    IF c = ORD.d THEN decode_dict(x, i, stack)
    ELSE IF c = ORD.l THEN decode_list(x, i, stack)
    ELSE IF c = ORD.i THEN decode_int(x, i)
    ELSE IF 48 <= c /\ c <= 57 THEN decode_string(x, i)
    ELSE Raised("ValueError")

decode(x, i, stack) ==
    IF i >= Len(x) THEN Raised("ValueError")
    ELSE IF ~PyInRange(x, i) THEN Raised("IndexError")
    ELSE DecodeByte(x, i, stack, PyAt(x, i))

\* The try/except of _decode_bencode: the cursor is discarded, any
\* exception becomes None.
DecodeOutcome(r) ==
    IF IsHang(r) THEN Hang
    ELSE IF IsRaised(r) THEN NoneV
    ELSE r.v

_decode_bencode(x) == DecodeOutcome(decode(x, 0, {}))

(***************************************************************************)
(* _encode_bencode.                                                        *)
(***************************************************************************)
RECURSIVE SortedKeys(_)
\* sorted(obj.keys())
SortedKeys(keys) ==
    IF keys = {} THEN <<>>
    ELSE LET least == CHOOSE k \in keys : \A q \in keys : q = k \/ BytesLess(k, q)
         IN  <<least>> \o SortedKeys(keys \ {least})

TypeErrorBytes == <<-1>>   \* stands for the TypeError of the last branch

RECURSIVE _encode_bencode(_)
RECURSIVE EncodeItems(_)
RECURSIVE EncodePairs(_, _)

\* b''.join(self._encode_bencode(item) for item in obj)
EncodeItems(xs) ==
    IF xs = <<>> THEN <<>>
    ELSE _encode_bencode(Head(xs)) \o EncodeItems(Tail(xs))

\* the items list built by the loop over sorted(obj.keys()), joined
EncodePairs(items, keys) ==
    IF keys = <<>> THEN <<>>
    ELSE _encode_bencode(BytesV(Head(keys)))
           \o _encode_bencode(DictGet(items, Head(keys)))
           \o EncodePairs(items, Tail(keys))

\* a faulty variant of the key order: the keys are written as inserted,
\* without sorted()
DictKeyOrderInserted(items) == [j \in 1..Len(items) |-> items[j][1]]

DictKeyOrder(items) == SortedKeys(DictKeys(items))

_encode_bencode(obj) ==
    IF IsBytes(obj) THEN PyStr(Len(obj.bytes)) \o <<ORD.colon>> \o obj.bytes
    ELSE IF IsInt(obj) THEN <<ORD.i>> \o PyStr(obj.int) \o <<ORD.e>>
    ELSE IF IsList(obj) THEN <<ORD.l>> \o EncodeItems(obj.list) \o <<ORD.e>>
    ELSE IF IsDict(obj)
         THEN <<ORD.d>> \o EncodePairs(obj.dict, DictKeyOrder(obj.dict)) \o <<ORD.e>>
    ELSE TypeErrorBytes

\* hashlib.sha1(b).hexdigest(), abstracted to a 16-bit positional digest of
\* the bytes: equal byte strings have equal digests, and the digest depends
\* on every byte and on its position.
RECURSIVE DigestRange(_, _, _)
DigestRange(b, lo, hi) ==
    IF lo > hi THEN 0
    ELSE IF lo = hi THEN ((b[lo] + 1) * (((lo * lo + 7 * lo) % 251) + 1)) % 65536
    ELSE LET mid == (lo + hi) \div 2
         IN  (DigestRange(b, lo, mid) + DigestRange(b, mid + 1, hi)) % 65536

sha1_hexdigest(b) == (DigestRange(b, 1, Len(b)) + 40961 * (Len(b) + 1)) % 65536

(***************************************************************************)
(* Python operations on decoded values that the verifier relies on.        *)
(***************************************************************************)
K_info == <<ORD.i, ORD.n, ORD.f, ORD.o>>
K_files == <<ORD.f, ORD.i, ORD.l, ORD.e, ORD.s>>
K_name == <<ORD.n, ORD.a, ORD.m, ORD.e>>
K_length == <<ORD.l, ORD.e, ORD.n, ORD.g, ORD.t, ORD.h>>
K_path == <<ORD.p, ORD.a, ORD.t, ORD.h>>
K_piece_length == <<ORD.p, ORD.i, ORD.e, ORD.c, ORD.e, ORD.space>> \o K_length
K_announce == <<ORD.a, ORD.n, ORD.n, ORD.o, ORD.u, ORD.n, ORD.c, ORD.e>>
K_announce_list == K_announce \o <<ORD.minus, ORD.l, ORD.i, ORD.s, ORD.t>>

Returned(v) == [returned |-> v]
IsReturned(r) == DOMAIN r = {"returned"}

\* k in v, for a bytes key k: a dict is searched by key, a list by element,
\* a bytes object for the substring; an int or None raises TypeError.
PyContains(v, k) ==
    IF IsDict(v) THEN Returned(DictHas(v.dict, k))
    ELSE IF IsList(v) THEN Returned(\E j \in 1..Len(v.list) : v.list[j] = BytesV(k))
    ELSE IF IsBytes(v)
         THEN Returned(\E j \in 0..(Len(v.bytes) - Len(k)) :
                           SubSeq(v.bytes, j + 1, j + Len(k)) = k)
    ELSE Raised("TypeError")

\* v[k], for a bytes key k: only a dict can be indexed by bytes.
PyGetItem(v, k) ==
    IF IsDict(v)
    THEN (IF DictHas(v.dict, k) THEN Returned(DictGet(v.dict, k)) ELSE Raised("KeyError"))
    ELSE Raised("TypeError")

\* the elements a for loop over v visits
PyIter(v) ==
    IF IsList(v) THEN Returned(v.list)
    ELSE IF IsDict(v) THEN Returned([j \in 1..Len(v.dict) |-> BytesV(v.dict[j][1])])
    ELSE IF IsBytes(v) THEN Returned([j \in 1..Len(v.bytes) |-> IntV(v.bytes[j])])
    ELSE Raised("TypeError")

\* v.decode('utf-8', errors='ignore'): only bytes have the method.
PyDecodeText(v) ==
    IF IsBytes(v) THEN Returned(Utf8Ignore(v.bytes)) ELSE Raised("AttributeError")

\* a += b
PyIAdd(a, b) ==
    IF IsInt(a) /\ IsInt(b) THEN Returned(IntV(a.int + b.int))
    ELSE IF IsBytes(a) /\ IsBytes(b) THEN Returned(BytesV(a.bytes \o b.bytes))
    ELSE IF IsList(a) /\ ~IsInt(b) THEN Returned(ListV(a.list \o PyIter(b).returned))
    ELSE Raised("TypeError")

RECURSIVE os_path_join(_, _)
\* os.path.join(a, *p) of posixpath
os_path_join(a, p) ==
    IF p = <<>> THEN a
    ELSE LET b == Head(p)
             next == IF b # <<>> /\ b[1] = ORD.slash THEN b
                     ELSE IF a = <<>> \/ a[Len(a)] = ORD.slash THEN a \o b
                     ELSE a \o <<ORD.slash>> \o b
         IN  os_path_join(next, Tail(p))

(***************************************************************************)
(* TorrentVerifier.  self is the record of the five fields __init__ sets.  *)
(* A method is an operator from self (and its inputs) to the self it       *)
(* leaves behind and what the call returned or raised.                     *)
(***************************************************************************)
NewVerifier ==
    [torrent_data |-> NoneV, info |-> NoneV, info_hash |-> NoneV,
     files |-> <<>>, total_size |-> IntV(0)]

FileEntry(path, length, piece_length) ==
    [path |-> path, length |-> length, piece_length |-> piece_length]

Outcome(self, r) == [self |-> self, result |-> r]

RECURSIVE DecodeParts(_)
RECURSIVE DecodePartsCons(_, _)
\* [p.decode('utf-8', errors='ignore') for p in file_info[b'path']]
DecodeParts(ps) ==
    IF ps = <<>> THEN Returned(<<>>)
    ELSE DecodePartsCons(PyDecodeText(Head(ps)), Tail(ps))

DecodePartsJoin(h, t) ==
    IF IsRaised(t) THEN t ELSE Returned(<<h.returned>> \o t.returned)

DecodePartsCons(h, rest) ==
    IF IsRaised(h) THEN h ELSE DecodePartsJoin(h, DecodeParts(rest))

(***************************************************************************)
(* _extract_file_info.  The statements of the function run in order; each  *)
(* operator below is the function from one statement on, given what the    *)
(* statement before it evaluated, so that an exception leaves self as the  *)
(* statements before it made it.                                           *)
(***************************************************************************)
RECURSIVE ExtractFiles(_, _, _)
RECURSIVE ExtractPath(_, _, _, _)
RECURSIVE ExtractIter(_, _, _, _)
RECURSIVE ExtractParts(_, _, _, _)
RECURSIVE ExtractEntry(_, _, _, _, _)
RECURSIVE ExtractAdd(_, _, _, _)

\* self.total_size += file_info[b'length'], then the next file_info
ExtractAdd(appended, file_infos, base_path, sum) ==
    IF IsRaised(sum) THEN Outcome(appended, sum)
    ELSE ExtractFiles([appended EXCEPT !.total_size = sum.returned],
                      Tail(file_infos), base_path)

\* self.files.append({...}); length is file_info[b'length']
ExtractEntry(self, file_infos, base_path, full_path, length) ==
    IF IsRaised(length) THEN Outcome(self, length)
    ELSE ExtractAdd([self EXCEPT !.files =
                        Append(@, FileEntry(full_path, length.returned,
                                            DictGetDefault(self.info.dict,
                                                           K_piece_length, IntV(0))))],
                    file_infos, base_path,
                    PyIAdd(self.total_size, length.returned))

\* full_path = os.path.join(base_path, *path_parts)
ExtractParts(self, file_infos, base_path, parts) ==
    IF IsRaised(parts) THEN Outcome(self, parts)
    ELSE ExtractEntry(self, file_infos, base_path,
                      os_path_join(base_path, parts.returned),
                      PyGetItem(Head(file_infos), K_length))

ExtractIter(self, file_infos, base_path, iter) ==
    IF IsRaised(iter) THEN Outcome(self, iter)
    ELSE ExtractParts(self, file_infos, base_path, DecodeParts(iter.returned))

ExtractPath(self, file_infos, base_path, pathv) ==
    IF IsRaised(pathv) THEN Outcome(self, pathv)
    ELSE ExtractIter(self, file_infos, base_path, PyIter(pathv.returned))

\* the for loop of the multi-file branch over the remaining file_infos
ExtractFiles(self, file_infos, base_path) ==
    IF file_infos = <<>> THEN Outcome(self, Returned(NoneV))
    ELSE ExtractPath(self, file_infos, base_path,
                     PyGetItem(Head(file_infos), K_path))

\* the single-file branch
ExtractSingle(self, path, length, piece_length) ==
    Outcome([self EXCEPT !.files = Append(@, FileEntry(path, length, piece_length)),
                         !.total_size = length],
            Returned(NoneV))

\* the multi-file branch; file_infos is what iterating info[b'files'] gives
ExtractMulti(self, base_path, file_infos) ==
    IF IsRaised(file_infos) THEN Outcome(self, file_infos)
    ELSE ExtractFiles(self, file_infos.returned, base_path)

\* name is info.get(b'name', b'').decode(...), the first thing either
\* branch evaluates
ExtractNamed(self, multi, name) ==
    IF IsRaised(name) THEN Outcome(self, name)
    ELSE IF ~multi
         THEN ExtractSingle(self, name.returned,
                            DictGetDefault(self.info.dict, K_length, IntV(0)),
                            DictGetDefault(self.info.dict, K_piece_length, IntV(0)))
    ELSE ExtractMulti(self, name.returned, PyIter(DictGet(self.info.dict, K_files)))

\* has_files is b'files' in info
ExtractMode(self, has_files) ==
    IF IsRaised(has_files) THEN Outcome(self, has_files)
    ELSE ExtractNamed(self, has_files.returned,
                      IF IsDict(self.info)
                      THEN PyDecodeText(DictGetDefault(self.info.dict, K_name,
                                                       BytesV(<<>>)))
                      ELSE Raised("AttributeError"))

_extract_file_info(self) == ExtractMode(self, PyContains(self.info, K_files))

(***************************************************************************)
(* load_torrent reading `bytes` from torrent_path; readable is FALSE when  *)
(* the file does not exist or cannot be opened.  Every exception is caught *)
(* and turned into False; a decoder that does not return leaves the call   *)
(* hanging before any field is assigned.  As above, one operator per       *)
(* statement, each given what the statement before it evaluated.           *)
(***************************************************************************)
\* return True, or False from the except clause
LoadExtracted(ex) == Outcome(ex.self, Returned(~IsRaised(ex.result)))

\* the bytes whose digest becomes info_hash
InfoBencoded(inf) == _encode_bencode(inf)

\* self.info = ...; self.info_hash = ...; self._extract_file_info()
LoadInfo(s1, inf) ==
    IF IsRaised(inf) THEN Outcome(s1, Returned(FALSE))
    ELSE LoadExtracted(_extract_file_info(
             [s1 EXCEPT !.info = inf.returned,
                        !.info_hash = HexV(sha1_hexdigest(InfoBencoded(inf.returned)))]))

\* if b'info' not in self.torrent_data: return False
LoadHasInfo(s1, td, has_info) ==
    IF IsRaised(has_info) THEN Outcome(s1, Returned(FALSE))
    ELSE IF ~has_info.returned THEN Outcome(s1, Returned(FALSE))
    ELSE LoadInfo(s1, PyGetItem(td, K_info))

\* if not self.torrent_data: return False
LoadRoot(s1, td) ==
    IF ~Truthy(td) THEN Outcome(s1, Returned(FALSE))
    ELSE LoadHasInfo(s1, td, PyContains(td, K_info))

\* self.torrent_data = self._decode_bencode(data)
LoadDecoded(self, td) ==
    IF IsHang(td) THEN Outcome(self, Hang)
    ELSE LoadRoot([self EXCEPT !.torrent_data = td], td)

load_torrent(self, bytes, readable) ==
    IF ~readable THEN Outcome(self, Returned(FALSE))
    ELSE LoadDecoded(self, _decode_bencode(bytes))

(***************************************************************************)
(* verify_files_exist.  fs gives, for each path the pass looks at, what    *)
(* the two queries answer: Absent (os.path.exists is False), Size(n)       *)
(* (exists, os.path.getsize returns n) or StatError (exists answered True  *)
(* and getsize raises OSError: the file vanished in between, or the size   *)
(* query failed).                                                          *)
(***************************************************************************)
Absent == [absent |-> TRUE]
StatError == [error |-> TRUE]
Size(n) == [size |-> n]

EmptyResults == [missing |-> <<>>, size_mismatch |-> <<>>, valid |-> <<>>]

\* a faulty variant of the classification: a file of the wrong size is
\* recorded as a mismatch and as valid
ClassifyEntryBoth(results, file_path, expected, status) ==
    IF status = Absent
    THEN [results EXCEPT !.missing =
             Append(@, [path |-> file_path, expected_size |-> expected])]
    ELSE IF IntV(status.size) # expected
    THEN [results EXCEPT !.size_mismatch =
             Append(@, [path |-> file_path, expected_size |-> expected,
                        actual_size |-> status.size]),
                         !.valid =
             Append(@, [path |-> file_path, size |-> expected])]
    ELSE [results EXCEPT !.valid =
             Append(@, [path |-> file_path, size |-> expected])]

\* One iteration of the loop: the results after file_info has been classified.
ClassifyEntry(results, file_path, expected, status) ==
    IF status = Absent
    THEN [results EXCEPT !.missing =
             Append(@, [path |-> file_path, expected_size |-> expected])]
    ELSE IF IntV(status.size) # expected
    THEN [results EXCEPT !.size_mismatch =
             Append(@, [path |-> file_path, expected_size |-> expected,
                        actual_size |-> status.size])]
    ELSE [results EXCEPT !.valid =
             Append(@, [path |-> file_path, size |-> expected])]

RECURSIVE VerifyLoop(_, _, _, _, _)
RECURSIVE VerifyEntry(_, _, _, _, _, _)

VerifyLoop(fls, k, base_dir, fs, results) ==
    IF k > Len(fls) THEN [result |-> Returned(results), failed_at |-> 0]
    ELSE VerifyEntry(fls, k, base_dir, fs, results,
                     os_path_join(base_dir, <<fls[k].path>>))

\* one iteration, for the entry whose joined path is file_path
VerifyEntry(fls, k, base_dir, fs, results, file_path) ==
    IF fs[file_path] = StatError
    THEN [result |-> Raised("OSError"), failed_at |-> k]
    ELSE VerifyLoop(fls, k + 1, base_dir, fs,
                    ClassifyEntry(results, file_path, fls[k].length, fs[file_path]))

verify_files_exist(self, base_dir, fs) ==
    VerifyLoop(self.files, 1, base_dir, fs, EmptyResults)

(***************************************************************************)
(* get_tracker_list.                                                       *)
(***************************************************************************)
\* if tracker_str not in trackers: trackers.append(tracker_str)
\* a faulty variant of the tracker append: no membership test
AddTrackerAlways(trks, tracker_str) == Append(trks, tracker_str)

AddTracker(trks, tracker_str) ==
    IF \E j \in 1..Len(trks) : trks[j] = tracker_str THEN trks
    ELSE Append(trks, tracker_str)

RECURSIVE TrackerLoop(_, _)
RECURSIVE TrackerAdd(_, _, _)
\* the inner loop over one tracker_group
TrackerLoop(trks, group) ==
    IF group = <<>> THEN Returned(trks)
    ELSE IF ~Truthy(Head(group)) THEN TrackerLoop(trks, Tail(group))
    ELSE TrackerAdd(trks, group, PyDecodeText(Head(group)))

TrackerAdd(trks, group, tracker_str) ==
    IF IsRaised(tracker_str) THEN tracker_str
    ELSE TrackerLoop(AddTracker(trks, tracker_str.returned), Tail(group))

RECURSIVE GroupLoop(_, _)
RECURSIVE GroupIter(_, _, _)
RECURSIVE GroupNext(_, _)
\* the outer loop over announce-list
GroupLoop(trks, groups) ==
    IF groups = <<>> THEN Returned(trks)
    ELSE GroupIter(trks, groups, PyIter(Head(groups)))

GroupIter(trks, groups, group) ==
    IF IsRaised(group) THEN group
    ELSE GroupNext(groups, TrackerLoop(trks, group.returned))

GroupNext(groups, r) ==
    IF IsRaised(r) THEN r ELSE GroupLoop(r.returned, Tail(groups))

TrackersIter(trks, groups) ==
    IF IsRaised(groups) THEN groups ELSE GroupLoop(trks, groups.returned)

TrackersGroups(trks, lst) ==
    IF IsRaised(lst) THEN lst ELSE TrackersIter(trks, PyIter(lst.returned))

\* if b'announce-list' in self.torrent_data: ...; return trackers
TrackersList(td, trks) ==
    IF ~PyContains(td, K_announce_list).returned THEN Returned(trks)
    ELSE TrackersGroups(trks, PyGetItem(td, K_announce_list))

TrackersDecoded(td, announce_str) ==
    IF IsRaised(announce_str) THEN announce_str
    ELSE TrackersList(td, <<announce_str.returned>>)

\* if announce: trackers.append(announce.decode(...))
TrackersPrimary(td, announce) ==
    IF IsRaised(announce) THEN announce
    ELSE IF ~Truthy(announce.returned) THEN TrackersList(td, <<>>)
    ELSE TrackersDecoded(td, PyDecodeText(announce.returned))

\* if b'announce' in self.torrent_data: ...
TrackersAnnounce(td, has_announce) ==
    IF IsRaised(has_announce) THEN has_announce
    ELSE IF ~has_announce.returned THEN TrackersList(td, <<>>)
    ELSE TrackersPrimary(td, PyGetItem(td, K_announce))

get_tracker_list(self) ==
    TrackersAnnounce(self.torrent_data, PyContains(self.torrent_data, K_announce))

(***************************************************************************)
(* Inputs.  A torrent file is written from a value tree; Writings(v) is    *)
(* every bencoding of v, with the entries of each dictionary in every      *)
(* order.                                                                  *)
(***************************************************************************)
RECURSIVE Perms(_)
Perms(S) ==
    IF S = {} THEN {<<>>}
    ELSE UNION {{<<e>> \o p : p \in Perms(S \ {e})} : e \in S}

RECURSIVE Writings(_)
RECURSIVE WriteSeq(_)
RECURSIVE WritePairs(_)

WriteSeq(vs) ==
    IF vs = <<>> THEN {<<>>}
    ELSE {a \o b : a \in Writings(Head(vs)), b \in WriteSeq(Tail(vs))}

WritePairs(items) ==
    IF items = <<>> THEN {<<>>}
    ELSE {PyStr(Len(Head(items)[1])) \o <<ORD.colon>> \o Head(items)[1] \o a \o b :
              a \in Writings(Head(items)[2]), b \in WritePairs(Tail(items))}

Writings(v) ==
    IF IsInt(v) THEN {<<ORD.i>> \o PyStr(v.int) \o <<ORD.e>>}
    ELSE IF IsBytes(v) THEN {PyStr(Len(v.bytes)) \o <<ORD.colon>> \o v.bytes}
    ELSE IF IsList(v) THEN {<<ORD.l>> \o w \o <<ORD.e>> : w \in WriteSeq(v.list)}
    ELSE {<<ORD.d>> \o w \o <<ORD.e>> :
              w \in UNION {WritePairs(p) :
                              p \in Perms({v.dict[j] : j \in 1..Len(v.dict)})}}

Lengths == 0..MaxSize

T_a == <<ORD.a>>
T_b == <<ORD.b>>
T_p == <<ORD.p>>
T_s == <<ORD.s>>
T_t1 == <<ORD.t, ORD.zero + 1>>
T_t2 == <<ORD.t, ORD.zero + 2>>
T_http_t1 == <<ORD.h, ORD.t, ORD.t, ORD.p, ORD.colon, ORD.slash, ORD.slash>> \o T_t1
T_http_t2 == <<ORD.h, ORD.t, ORD.t, ORD.p, ORD.colon, ORD.slash, ORD.slash>> \o T_t2

\* the path list of the j-th file: odd files share one path, even files another
PathOf(j) ==
    IF j % 2 = 1 THEN ListV(<<BytesV(T_a)>>) ELSE ListV(<<BytesV(T_s), BytesV(T_b)>>)

FileDict(length, path) == DictV(<<<<K_length, length>>, <<K_path, path>>>>)

SingleInfo(length) ==
    DictV(<<<<K_length, length>>, <<K_name, BytesV(T_a)>>,
            <<K_piece_length, IntV(1)>>>>)

MultiInfo(k, lens) ==
    DictV(<<<<K_files, ListV([j \in 1..k |-> FileDict(IntV(lens[j]), PathOf(j))])>>,
            <<K_name, BytesV(T_p)>>>>)

SingleInfos ==
    {SingleInfo(IntV(n)) : n \in Lengths}
      \cup {DictV(<<<<K_name, BytesV(T_a)>>>>), DictV(<<>>),
            SingleInfo(BytesV(T_b)),
            DictV(<<<<K_length, IntV(1)>>, <<K_name, IntV(1)>>>>)}

\* the declared lengths of k files: all equal, or running through Lengths
FileLengths(k) ==
    {[j \in 1..k |-> n] : n \in Lengths}
      \cup {[j \in 1..k |-> (j + n) % (MaxSize + 1)] : n \in Lengths}

MultiInfos ==
    {MultiInfo(k, <<>>) : k \in {0}}
      \cup UNION {{MultiInfo(k, lens) : lens \in FileLengths(k)} : k \in 1..MaxFiles}

\* multi-file infos that are not well formed
OddInfos ==
    {DictV(<<<<K_files, ListV(<<DictV(<<<<K_path, PathOf(1)>>>>)>>)>>>>),
     DictV(<<<<K_files, ListV(<<FileDict(IntV(1), PathOf(1)),
                                FileDict(BytesV(T_b), PathOf(2))>>)>>>>),
     DictV(<<<<K_files, ListV(<<FileDict(IntV(1), BytesV(<<>>)),
                                FileDict(IntV(1), IntV(1))>>)>>>>),
     DictV(<<<<K_files, IntV(1)>>>>),
     DictV(<<<<K_files, BytesV(<<>>)>>>>),
     DictV(<<<<K_files, ListV(<<FileDict(IntV(1), ListV(<<BytesV(<<ORD.slash, ORD.a>>)>>))>>)>>,
             <<K_name, BytesV(<<ORD.bad, ORD.p>>)>>>>)}

NonDictInfos ==
    {BytesV(T_a), BytesV(K_files), IntV(7), ListV(<<>>), ListV(<<BytesV(K_files)>>)}

InfoRoots ==
    {DictV(<<<<K_info, inf>>>>) :
        inf \in SingleInfos \cup MultiInfos \cup OddInfos \cup NonDictInfos}

Announces ==
    {NoneV, BytesV(T_t1), BytesV(<<>>), BytesV(<<ORD.bad>> \o T_t1), IntV(1)}

AnnounceLists ==
    {NoneV,
     ListV(<<ListV(<<BytesV(T_t1)>>), ListV(<<BytesV(T_t2)>>)>>),
     ListV(<<ListV(<<BytesV(T_t2), BytesV(T_t1)>>),
             ListV(<<BytesV(T_t2), BytesV(<<>>)>>)>>),
     ListV(<<ListV(<<BytesV(T_t1 \o <<ORD.bad>>), BytesV(T_t2)>>)>>),
     ListV(<<DictV(<<<<T_t2, IntV(1)>>>>), ListV(<<>>)>>),
     ListV(<<BytesV(T_t1)>>),
     IntV(3)}

\* absent keys are written as None above and left out of the dictionary
TrackerRoot(announce, announce_list) ==
    DictV((IF IsNone(announce) THEN <<>> ELSE <<<<K_announce, announce>>>>)
          \o (IF IsNone(announce_list) THEN <<>>
              ELSE <<<<K_announce_list, announce_list>>>>)
          \o <<<<K_info, DictV(<<<<K_name, BytesV(T_a)>>>>)>>>>)

TrackerRoots ==
    {TrackerRoot(a, al) : a \in Announces, al \in AnnounceLists}
      \cup {TrackerRoot(BytesV(T_http_t1),
                        ListV(<<ListV(<<BytesV(T_http_t1)>>),
                                ListV(<<BytesV(T_http_t2)>>)>>))}

OtherRoots ==
    {ListV(<<BytesV(K_info)>>), ListV(<<BytesV(K_announce)>>), BytesV(K_info),
     IntV(5), DictV(<<>>), DictV(<<<<K_announce, BytesV(T_t1)>>>>)}

TorrentTrees == InfoRoots \cup TrackerRoots \cup OtherRoots

\* a torrent file cut short before its closing 'e's, and one with bytes
\* after its end; a file on which the decoder does not return
DamagedInputs ==
    LET whole == _encode_bencode(DictV(<<<<K_info, SingleInfo(IntV(1))>>>>))
    IN  {SubSeq(whole, 1, Len(whole) - 1), SubSeq(whole, 1, Len(whole) - 2),
         whole \o <<ORD.e>>, whole \o whole,
         <<ORD.d, ORD.zero, ORD.colon, ORD.zero, ORD.colon, ORD.minus,
           ORD.zero + 5, ORD.colon>>}

TorrentInputs == UNION {Writings(t) : t \in TorrentTrees} \cup DamagedInputs

Alphabet == {ORD.d, ORD.l, ORD.i, ORD.e, ORD.colon, ORD.minus, ORD.zero, ORD.zero + 1}

ShortInputs == UNION {[1..n -> Alphabet] : n \in 0..MaxLen}

\* b"5:ab", and inputs that send the dictionary loop backwards
NamedInputs ==
    {<<ORD.zero + 5, ORD.colon, ORD.a, ORD.b>>,
     <<ORD.i, ORD.zero, ORD.zero + 3, ORD.e>>,
     <<ORD.d, ORD.minus, ORD.zero + 2, ORD.colon, ORD.a, ORD.b, ORD.e>>,
     <<ORD.d, ORD.minus, ORD.zero + 4, ORD.colon>>}

(***************************************************************************)
(* The state machine of one TorrentVerifier.                               *)
(***************************************************************************)
Self ==
    [torrent_data |-> torrent_data, info |-> info, info_hash |-> info_hash,
     files |-> files, total_size |-> total_size]

SetSelf(s) ==
    /\ torrent_data' = s.torrent_data
    /\ info' = s.info
    /\ info_hash' = s.info_hash
    /\ files' = s.files
    /\ total_size' = s.total_size

InitVerifier ==
    /\ torrent_data = NewVerifier.torrent_data
    /\ info = NewVerifier.info
    /\ info_hash = NewVerifier.info_hash
    /\ files = NewVerifier.files
    /\ total_size = NewVerifier.total_size
    /\ load_result = <<>>
    /\ report = NotCalled
    /\ stat_failed = 0
    /\ trackers = NotCalled
    /\ decoded = NotCalled
    /\ encoded = NotCalled

Init == data \in TorrentInputs /\ torrent_exists \in BOOLEAN /\ InitVerifier

\* a load_torrent call that never returned: the single thread is stuck in it
Stuck == load_result # <<>> /\ IsHang(load_result[Len(load_result)])

BaseDirs == {<<ORD.dot>>, <<ORD.slash, ORD.d, ORD.slash>>}

FsStatuses == {Absent, StatError} \cup {Size(n) : n \in Lengths}

\* the fields and the return value a load_torrent call leaves
ApplyLoad(o) ==
    /\ SetSelf(o.self)
    /\ load_result' = Append(load_result, o.result)

LoadTorrent ==
    /\ ~Stuck
    /\ Len(load_result) < MaxLoads
    /\ ApplyLoad(load_torrent(Self, data, torrent_exists))
    /\ report' = NotCalled
    /\ stat_failed' = 0
    /\ trackers' = NotCalled
    /\ UNCHANGED <<data, torrent_exists, decoded, encoded>>

ApplyVerify(o) ==
    /\ report' = o.result
    /\ stat_failed' = o.failed_at

\* the paths a pass over self.files queries
QueriedPaths(base_dir) ==
    {os_path_join(base_dir, <<files[k].path>>) : k \in 1..Len(files)}

VerifyFilesExist ==
    /\ ~Stuck
    /\ \E base_dir \in BaseDirs :
          \E fs \in [QueriedPaths(base_dir) -> FsStatuses] :
              ApplyVerify(verify_files_exist(Self, base_dir, fs))
    /\ trackers' = NotCalled
    /\ UNCHANGED <<data, torrent_exists, torrent_data, info, info_hash, files, total_size,
                   load_result, decoded, encoded>>

GetTrackerList ==
    /\ ~Stuck
    /\ trackers' = get_tracker_list(Self)
    /\ report' = NotCalled
    /\ stat_failed' = 0
    /\ UNCHANGED <<data, torrent_exists, torrent_data, info, info_hash, files, total_size,
                   load_result, decoded, encoded>>

Next == LoadTorrent \/ VerifyFilesExist \/ GetTrackerList

Spec == Init /\ [][Next]_vars

(***************************************************************************)
(* The codec on its own: decode the input, then encode what was decoded.   *)
(***************************************************************************)
InitCodec ==
    /\ data \in ShortInputs \cup NamedInputs \cup TorrentInputs
    /\ torrent_exists = TRUE
    /\ InitVerifier

DecodeBencode ==
    /\ IsNotCalled(decoded)
    /\ decoded' = _decode_bencode(data)
    /\ UNCHANGED <<data, torrent_exists, torrent_data, info, info_hash, files, total_size,
                   load_result, report, stat_failed, trackers, encoded>>

EncodeOutcome(b) ==
    IF b = TypeErrorBytes THEN Raised("TypeError") ELSE Returned(b)

EncodeBencode ==
    /\ ~IsNotCalled(decoded) /\ ~IsHang(decoded)
    /\ IsNotCalled(encoded)
    /\ encoded' = EncodeOutcome(_encode_bencode(decoded))
    /\ UNCHANGED <<data, torrent_exists, torrent_data, info, info_hash, files, total_size,
                   load_result, report, stat_failed, trackers, decoded>>

NextCodec == DecodeBencode \/ EncodeBencode

SpecCodec == InitCodec /\ [][NextCodec]_vars

(***************************************************************************)
(* The canonical grammar, read strictly: integers without leading zeros    *)
(* or -0, byte strings with a canonical decimal length, lists, and         *)
(* dictionaries whose keys are strictly ascending.  Positions are 0-based; *)
(* an End operator gives the position after the item that starts at p, or  *)
(* -1 when there is no such item.                                          *)
(***************************************************************************)
RECURSIVE DigitsEnd(_, _)
DigitsEnd(x, p) ==
    IF p < Len(x) /\ x[p + 1] \in Digits THEN DigitsEnd(x, p + 1) ELSE p

\* a decimal natural from p to q, without leading zeros
CanonNat(x, p, q) == q > p /\ ~(x[p + 1] = ORD.zero /\ q > p + 1)

CanonStrFrom(x, p, q) ==
    IF ~CanonNat(x, p, q) \/ q >= Len(x) THEN -1
    ELSE IF x[q + 1] # ORD.colon THEN -1
    ELSE IF q + 1 + DigitsValue(SubSeq(x, p + 1, q)) > Len(x) THEN -1
    ELSE q + 1 + DigitsValue(SubSeq(x, p + 1, q))

CanonStrEnd(x, p) == CanonStrFrom(x, p, DigitsEnd(x, p))

\* the bytes of the canonical string that starts at p and ends before q
CanonStrBytes(x, p, q) == SubSeq(x, DigitsEnd(x, p) + 2, q)

CanonIntFrom(x, negative, s, q) ==
    IF ~CanonNat(x, s, q) \/ q >= Len(x) THEN -1
    ELSE IF x[q + 1] # ORD.e THEN -1
    ELSE IF negative /\ x[s + 1] = ORD.zero THEN -1
    ELSE q + 1

CanonIntEnd(x, p) ==
    IF p + 1 < Len(x) /\ x[p + 2] = ORD.minus
    THEN CanonIntFrom(x, TRUE, p + 2, DigitsEnd(x, p + 2))
    ELSE CanonIntFrom(x, FALSE, p + 1, DigitsEnd(x, p + 1))

RECURSIVE CanonEnd(_, _)
RECURSIVE CanonListEnd(_, _)
RECURSIVE CanonListNext(_, _)
RECURSIVE CanonDictEnd(_, _, _)
RECURSIVE CanonDictKey(_, _, _, _)
RECURSIVE CanonDictNext(_, _, _)

CanonListNext(x, q) == IF q = -1 THEN -1 ELSE CanonListEnd(x, q)

CanonListEnd(x, p) ==
    IF p >= Len(x) THEN -1
    ELSE IF x[p + 1] = ORD.e THEN p + 1
    ELSE CanonListNext(x, CanonEnd(x, p))

CanonDictNext(x, key, q) == IF q = -1 THEN -1 ELSE CanonDictEnd(x, q, <<key>>)

\* prev is <<>> or holds the key before this one; k ends the key at p
CanonDictKey(x, p, prev, k) ==
    IF k = -1 THEN -1
    ELSE IF prev # <<>> /\ ~BytesLess(prev[1], CanonStrBytes(x, p, k)) THEN -1
    ELSE CanonDictNext(x, CanonStrBytes(x, p, k), CanonEnd(x, k))

CanonDictEnd(x, p, prev) ==
    IF p >= Len(x) THEN -1
    ELSE IF x[p + 1] = ORD.e THEN p + 1
    ELSE CanonDictKey(x, p, prev, CanonStrEnd(x, p))

CanonEnd(x, p) ==
    IF p >= Len(x) THEN -1
    ELSE IF x[p + 1] = ORD.i THEN CanonIntEnd(x, p)
    ELSE IF x[p + 1] = ORD.l THEN CanonListEnd(x, p + 1)
    ELSE IF x[p + 1] = ORD.d THEN CanonDictEnd(x, p + 1, <<>>)
    ELSE CanonStrEnd(x, p)

IsCanonical(x) == CanonEnd(x, 0) = Len(x)

(***************************************************************************)
(* C1.  Round trip: for every canonically encoded input, decoding and      *)
(* then encoding gives back exactly the input bytes.                       *)
(***************************************************************************)
RoundTrip ==
    (IsCanonical(data) /\ ~IsNotCalled(decoded) /\ ~IsNotCalled(encoded))
        => encoded = Returned(data)

\* a canonical dictionary of several keys, one of them holding a nested
\* container, has made the round trip
RoundTripWitness ==
    /\ IsCanonical(data)
    /\ encoded = Returned(data)
    /\ IsDict(decoded)
    /\ Len(decoded.dict) >= 1
    /\ IsDict(decoded.dict[1][2])
    /\ Len(decoded.dict[1][2].dict) >= 2

(***************************************************************************)
(* C2.  Order independence of the digest: in the state load_torrent        *)
(* leaves, every other writing of the same root, with the keys of the      *)
(* info dictionary and of the dictionaries inside it in any order, loads   *)
(* to the same canonical encoding of info and to the same info_hash.       *)
(***************************************************************************)
HasInfoDict(td) ==
    /\ IsDict(td)
    /\ DictHas(td.dict, K_info)
    /\ IsDict(DictGet(td.dict, K_info))

\* load_torrent was the last call made
JustLoaded == load_result # <<>> /\ IsNotCalled(report) /\ IsNotCalled(trackers)

SameDigest(s) ==
    /\ s.info_hash = info_hash
    /\ InfoBencoded(s.info) = InfoBencoded(info)

DigestOrderIndependent ==
    (JustLoaded /\ HasInfoDict(torrent_data))
        => \A w \in Writings(torrent_data) :
               SameDigest(load_torrent(NewVerifier, w, TRUE).self)

\* a file whose info dictionary is not written in sorted key order has
\* been loaded with success
DigestOrderWitness ==
    /\ JustLoaded
    /\ load_result[Len(load_result)] = Returned(TRUE)
    /\ HasInfoDict(torrent_data)
    /\ Len(info.dict) >= 2
    /\ DictKeyOrder(info.dict) # [j \in 1..Len(info.dict) |-> info.dict[j][1]]
    /\ data # _encode_bencode(torrent_data)

(***************************************************************************)
(* C3.  Partition: the report verify_files_exist returns holds every       *)
(* entry of files in exactly one of missing, size_mismatch and valid: the  *)
(* three lengths add up to len(files), and each (path, length) occurs in   *)
(* the three sequences together as often as it occurs in files.            *)
(***************************************************************************)
InFiles(base_dir, p, l) ==
    Cardinality({k \in 1..Len(files) :
        os_path_join(base_dir, <<files[k].path>>) = p /\ files[k].length = l})

InMissing(r, p, l) ==
    Cardinality({k \in 1..Len(r.missing) :
        r.missing[k].path = p /\ r.missing[k].expected_size = l})

InMismatch(r, p, l) ==
    Cardinality({k \in 1..Len(r.size_mismatch) :
        r.size_mismatch[k].path = p /\ r.size_mismatch[k].expected_size = l})

InValid(r, p, l) ==
    Cardinality({k \in 1..Len(r.valid) :
        r.valid[k].path = p /\ r.valid[k].size = l})

PartitionOf(r, base_dir) ==
    \A k \in 1..Len(files) :
        InFiles(base_dir, os_path_join(base_dir, <<files[k].path>>), files[k].length)
          = InMissing(r, os_path_join(base_dir, <<files[k].path>>), files[k].length)
            + InMismatch(r, os_path_join(base_dir, <<files[k].path>>), files[k].length)
            + InValid(r, os_path_join(base_dir, <<files[k].path>>), files[k].length)

Partition ==
    IsReturned(report)
        => /\ Len(report.returned.missing) + Len(report.returned.size_mismatch)
                + Len(report.returned.valid) = Len(files)
           /\ \E base_dir \in BaseDirs : PartitionOf(report.returned, base_dir)

\* a report over at least three entries, with a missing file and a file of
\* the wrong size
PartitionWitness ==
    /\ IsReturned(report)
    /\ Len(files) >= 3
    /\ report.returned.missing # <<>>
    /\ report.returned.size_mismatch # <<>>

(***************************************************************************)
(* C4.  Sum invariant: after load_torrent has returned success,            *)
(* total_size is the arithmetic sum of the length fields of the entries    *)
(* of files, also when load_torrent is called again on the same verifier.  *)
(***************************************************************************)
RECURSIVE SumLengths(_)
SumLengths(fls) ==
    IF fls = <<>> THEN 0 ELSE Head(fls).length.int + SumLengths(Tail(fls))

LoadSucceeded ==
    load_result # <<>> /\ load_result[Len(load_result)] = Returned(TRUE)

SumInvariant ==
    (LoadSucceeded /\ \A k \in 1..Len(files) : IsInt(files[k].length))
        => total_size = IntV(SumLengths(files))

(***************************************************************************)
(* C8.  A failing size query does not abort verify_files_exist: when the   *)
(* query fails on one entry, a report is still returned and it holds the   *)
(* other entries.                                                          *)
(***************************************************************************)
StatFailureReported ==
    stat_failed # 0
        => /\ IsReturned(report)
           /\ Len(report.returned.missing) + Len(report.returned.size_mismatch)
                + Len(report.returned.valid) >= Len(files) - 1

(***************************************************************************)
(* C9.  Tracker de-duplication: the list get_tracker_list returns has no   *)
(* two equal strings and is the first-seen order of the primary announce   *)
(* URL followed by the flattened announce-list; announce "http://t1" with  *)
(* announce-list [["http://t1"],["http://t2"]] gives                       *)
(* ["http://t1","http://t2"].                                              *)
(***************************************************************************)
PrimaryUrl(td) ==
    IF ~IsDict(td) THEN <<>>
    ELSE IF ~DictHas(td.dict, K_announce) THEN <<>>
    ELSE IF ~Truthy(DictGet(td.dict, K_announce)) THEN <<>>
    ELSE <<Utf8Ignore(DictGet(td.dict, K_announce).bytes)>>

RECURSIVE GroupUrls(_)
GroupUrls(group) ==
    IF group = <<>> THEN <<>>
    ELSE IF ~Truthy(Head(group)) THEN GroupUrls(Tail(group))
    ELSE <<Utf8Ignore(Head(group).bytes)>> \o GroupUrls(Tail(group))

RECURSIVE FlattenedUrls(_)
FlattenedUrls(groups) ==
    IF groups = <<>> THEN <<>>
    ELSE GroupUrls(PyIter(Head(groups)).returned) \o FlattenedUrls(Tail(groups))

ListedUrls(td) ==
    IF ~IsDict(td) THEN <<>>
    ELSE IF ~DictHas(td.dict, K_announce_list) THEN <<>>
    ELSE FlattenedUrls(PyIter(DictGet(td.dict, K_announce_list)).returned)

\* the first n elements of s without those that occurred before
RECURSIVE FirstSeen(_, _)
FirstSeen(s, n) ==
    IF n = 0 THEN <<>>
    ELSE IF \E j \in 1..(n - 1) : s[j] = s[n] THEN FirstSeen(s, n - 1)
    ELSE Append(FirstSeen(s, n - 1), s[n])

TrackerExample ==
    TrackerRoot(BytesV(T_http_t1),
                ListV(<<ListV(<<BytesV(T_http_t1)>>), ListV(<<BytesV(T_http_t2)>>)>>))

TrackersAre(t, all, primary) ==
    /\ \A j, k \in 1..Len(t) : j # k => t[j] # t[k]
    /\ t = FirstSeen(all, Len(all))
    /\ primary # <<>> => (t # <<>> /\ t[1] = primary[1])
    /\ torrent_data = TrackerExample => t = <<T_http_t1, T_http_t2>>

TrackerDedup ==
    IsReturned(trackers)
        => TrackersAre(trackers.returned,
                       PrimaryUrl(torrent_data) \o ListedUrls(torrent_data),
                       PrimaryUrl(torrent_data))

\* the example: the primary URL is listed again and is returned once
TrackerDedupWitness ==
    /\ torrent_data = TrackerExample
    /\ trackers = Returned(<<T_http_t1, T_http_t2>>)

(***************************************************************************)
(* C10.  Structural errors are fatal: when the decoded root is not a       *)
(* dictionary with a key info whose value is a dictionary, load_torrent    *)
(* returns False, info_hash stays unset and files stays empty.             *)
(***************************************************************************)
StructuralErrorIsFatal ==
    (load_result # <<>> /\ ~Stuck /\ ~IsNone(torrent_data)
       /\ ~HasInfoDict(torrent_data))
        => /\ load_result[Len(load_result)] = Returned(FALSE)
           /\ info_hash = NoneV
           /\ files = <<>>

(***************************************************************************)
(* C5.  Malformed input is rejected: an integer token with leading zeros   *)
(* or a negative zero, and the byte string "5:ab" whose declared length    *)
(* exceeds the buffer, decode to a failure (None), never to a value.       *)
(***************************************************************************)
\* i, an optional minus sign, one or more digits, e
IntToken(x) ==
    /\ Len(x) >= 3
    /\ x[1] = ORD.i
    /\ x[Len(x)] = ORD.e
    /\ \/ DigitsEnd(x, 1) = Len(x) - 1
       \/ x[2] = ORD.minus /\ Len(x) >= 4 /\ DigitsEnd(x, 2) = Len(x) - 1

MalformedInt(x) == IntToken(x) /\ ~IsCanonical(x)

OverlongString == <<ORD.zero + 5, ORD.colon, ORD.a, ORD.b>>

MalformedRejected ==
    (~IsNotCalled(decoded) /\ (MalformedInt(data) \/ data = OverlongString))
        => decoded = NoneV

(***************************************************************************)
(* C6.  Unterminated containers are rejected: when a list or dictionary,   *)
(* at any depth, reaches the end of the buffer without its closing e,      *)
(* decoding fails (None) and does not return the elements read so far.     *)
(***************************************************************************)
RECURSIVE OpenAt(_, _)
RECURSIVE OpenList(_, _)
RECURSIVE OpenListItem(_, _, _)
RECURSIVE OpenDict(_, _)
RECURSIVE OpenDictKey(_, _)
RECURSIVE OpenDictItem(_, _, _)

\* the value at p is a container that is still open at the end of x
OpenAt(x, p) ==
    IF p >= Len(x) THEN FALSE
    ELSE IF x[p + 1] = ORD.l THEN OpenList(x, p + 1)
    ELSE IF x[p + 1] = ORD.d THEN OpenDict(x, p + 1)
    ELSE FALSE

OpenListItem(x, p, q) == IF q # -1 THEN OpenList(x, q) ELSE OpenAt(x, p)

OpenList(x, p) ==
    IF p >= Len(x) THEN TRUE
    ELSE IF x[p + 1] = ORD.e THEN FALSE
    ELSE OpenListItem(x, p, CanonEnd(x, p))

OpenDictItem(x, k, q) == IF q # -1 THEN OpenDict(x, q) ELSE OpenAt(x, k)

OpenDictKey(x, k) ==
    IF k = -1 THEN FALSE ELSE OpenDictItem(x, k, CanonEnd(x, k))

OpenDict(x, p) ==
    IF p >= Len(x) THEN TRUE
    ELSE IF x[p + 1] = ORD.e THEN FALSE
    ELSE OpenDictKey(x, CanonStrEnd(x, p))

Unterminated(x) == OpenAt(x, 0)

UnterminatedRejected ==
    (~IsNotCalled(decoded) /\ Unterminated(data)) => decoded = NoneV

(***************************************************************************)
(* C7.  Trailing data is rejected: when one well-formed top-level value    *)
(* is followed by one or more bytes, decoding fails (None); a value is     *)
(* returned only when the value ends where the input ends.                 *)
(***************************************************************************)
HasTrailingData(x) == CanonEnd(x, 0) # -1 /\ CanonEnd(x, 0) < Len(x)

TrailingDataRejected ==
    (~IsNotCalled(decoded) /\ HasTrailingData(data)) => decoded = NoneV

====
